---- MODULE Spec2Model ----
(***************************************************************************)
(* A model of the tuned A2C policy (src/a2c/tuned_a2c.py) and of the       *)
(* caches of SmallConvLSTMModel (src/exploration/small_lstm_model.py).     *)
(*                                                                         *)
(* Conventions.                                                            *)
(*  - Python's None / a missing attribute is the empty sequence <<>>; a    *)
(*    present value x is <<x>>.                                            *)
(*  - A Python float is a normalised rational [num, den] (den > 0,         *)
(*    gcd 1): arithmetic is exact, rounding is not modelled.  A division   *)
(*    carries its ZeroDivisionError as err.                                *)
(*  - The learned networks are not computed.  The features of a forward    *)
(*    pass are identified with the input they were computed from, and the  *)
(*    response of the value branch on them (vals) travels with the input,  *)
(*    so the network is an arbitrary function of its input.                *)
(***************************************************************************)
EXTENDS Integers, Sequences, FiniteSets, TLC

VARIABLES
    is_recurrent,   \* policy.is_recurrent()
    conv_features,  \* SmallConvLSTMModel.conv_features
    lstm_features,  \* SmallConvLSTMModel.lstm_features
    forwarded,      \* history: some forward()/forward_rnn() has run
    entropy,        \* policy.entropy
    pi_err,         \* policy.pi_err
    value_err,      \* policy.value_err
    loss_batch,     \* history: the train_batch of the latest actor_critic_loss
    call,           \* the latest call: what it was given and what it answered
    config,         \* policy.config
    optimizer       \* policy._optimizers[0]

vars == <<is_recurrent, conv_features, lstm_features, forwarded, entropy,
          pi_err, value_err, loss_batch, call, config, optimizer>>

\* ------------------------------------------------------------------ bounds
MaxSeqs == 2        \* sequences in a train batch
MaxSeqLen == 2      \* timesteps of the longest sequence
MaxT == 2           \* timesteps of a trajectory segment
MaxWorkers == 2     \* config['num_workers']
MaxEnvs == 2        \* config['num_envs_per_worker']
MaxOptSteps == 3    \* optimizer steps taken

\* ------------------------------------------------------------- arithmetic
Abs(n) == IF n < 0 THEN -n ELSE n

Max(a, b) == IF a >= b THEN a ELSE b

RECURSIVE GCD(_, _)
GCD(a, b) == IF b = 0 THEN a ELSE GCD(b, a % b)

\* The float n/d, d # 0.
R(n, d) ==
    LET g == GCD(Abs(n), Abs(d))
        s == IF d < 0 THEN -1 ELSE 1
    IN [num |-> (s * n) \div g, den |-> (s * d) \div g]

RInt(n) == R(n, 1)
RAdd(a, b) == R(a.num * b.den + b.num * a.den, a.den * b.den)
RSub(a, b) == R(a.num * b.den - b.num * a.den, a.den * b.den)
RMul(a, b) == R(a.num * b.num, a.den * b.den)
RNeg(a) == [num |-> -a.num, den |-> a.den]

\* A value that may have raised: err = "" when it did not.
Ok(v) == [err |-> "", val |-> v]
Raise(e) == [err |-> e, val |-> RInt(0)]

\* Python's a / b on floats.
PyDiv(a, b) ==
    IF b.num = 0 THEN Raise("ZeroDivisionError")
    ELSE Ok(R(a.num * b.den, a.den * b.num))

RECURSIVE SumSeq(_)
SumSeq(s) == IF s = <<>> THEN 0 ELSE Head(s) + SumSeq(Tail(s))

RECURSIVE MaxSeq(_)
MaxSeq(s) == IF Len(s) = 1 THEN s[1] ELSE Max(Head(s), MaxSeq(Tail(s)))

\* ------------------------------------------------------------ train batches
\* One element of a train batch.  v, logp and ent are what the model and the
\* action distribution answer on it: model.value_function(), dist.logp(action)
\* and dist.entropy().
Row(o, a, t, v, l, e) ==
    [obs |-> o, adv |-> a, vt |-> t, v |-> v, logp |-> l, ent |-> e]

ValidRows == <<Row(1, 3, 1, 2, -1, 1), Row(2, -2, 2, 0, -3, 2)>>

\* What a padded position may hold: the zeros RLlib pads with, or anything else.
ZeroRow == Row(0, 0, 0, 0, 0, 0)
PadRows == <<ZeroRow, Row(0, 100, -100, 100, -50, 100)>>

\* Position k (from 1) of the flattened [Len(seq_lens), max_len] layout is a
\* real timestep of its sequence.
InSeq(seq_lens, max_len, k) ==
    ((k - 1) % max_len) < seq_lens[((k - 1) \div max_len) + 1]

\* The padded batches of n sequences.
BatchesOf(n) ==
    UNION {
        LET m == MaxSeq(sl)
        IN { [seq_lens |-> sl, state_in |-> <<0, 0>>,
              rows |-> [k \in 1..(n * m) |->
                          IF InSeq(sl, m, k) THEN ValidRows[pick[k]]
                          ELSE PadRows[pick[k]]]] :
               pick \in [1..(n * m) -> 1..2] }
        : sl \in [1..n -> 1..MaxSeqLen] }

Batches == UNION { BatchesOf(n) : n \in 1..MaxSeqs }

\* The batches as RLlib builds them: zero padded.
ZeroPadded(b) == \A k \in 1..Len(b.rows) : b.rows[k] # PadRows[2]

Column(b, fld) == [k \in 1..Len(b.rows) |-> b.rows[k][fld]]

\* ------------------------------------------------------------------- loss
\* ray.rllib.utils.torch_ops.sequence_mask followed by reshape([-1]).
sequence_mask_ones(seq_lens, max_seq_len) ==
    [k \in 1..(Len(seq_lens) * max_seq_len) |-> 1]

sequence_mask(seq_lens, max_seq_len) ==
    [k \in 1..(Len(seq_lens) * max_seq_len) |->
        IF InSeq(seq_lens, max_seq_len, k) THEN 1 ELSE 0]

LossMask(recurrent, b) ==
    IF recurrent
    THEN sequence_mask(b.seq_lens, MaxSeq(b.seq_lens))
    ELSE [k \in 1..Len(b.rows) |-> 1]

LossBatchSize_valid(recurrent, b) == SumSeq(LossMask(recurrent, b))

LossBatchSize(recurrent, b) ==
    IF recurrent THEN Len(b.seq_lens) ELSE Len(LossMask(recurrent, b))

\* -torch.sum(dist.entropy() * mask) / batch_size
EntropyTerm(b, mask, batch_size) ==
    R(-SumSeq([k \in 1..Len(mask) |-> b.rows[k].ent * mask[k]]), batch_size)

\* -torch.sum(advantages * log_probs * mask) / batch_size
PiErrTerm(b, mask, batch_size) ==
    R(-SumSeq([k \in 1..Len(mask) |-> b.rows[k].adv * b.rows[k].logp * mask[k]]),
      batch_size)

\* torch.sum(torch.pow((values - value_targets) * mask, 2.0)) / batch_size
ValueErrTerm(b, values, mask, batch_size) ==
    R(SumSeq([k \in 1..Len(mask) |->
                ((values[k] - b.rows[k].vt) * mask[k])
                  * ((values[k] - b.rows[k].vt) * mask[k])]),
      batch_size)

\* What actor_critic_loss computes from the batch and the model's values.
ActorCriticLoss(recurrent, cfg, b, values) ==
    LET mask == LossMask(recurrent, b)
        batch_size == LossBatchSize(recurrent, b)
        en == EntropyTerm(b, mask, batch_size)
        pi == PiErrTerm(b, mask, batch_size)
        ve == ValueErrTerm(b, values, mask, batch_size)
    IN [entropy |-> en, pi_err |-> pi, value_err |-> ve,
        overall |-> RAdd(RAdd(pi, RMul(cfg.vf_loss_coeff, ve)),
                         RMul(cfg.entropy_coeff, en))]

\* ------------------------------------------------------------------ model
\* self.convnet(x): the features of the observations obs.
ConvNet(obs) == [obs |-> obs]

\* self.lstm(inputs, state): the features of conv features x from state;
\* vals is what value_branch answers on them.
Lstm(x, state, vals) == [obs |-> x.obs, state |-> state, vals |-> vals]

\* SmallConvLSTMModel.value_function
ValueFunction_noassert(lf) ==
    IF lf = <<>> THEN [err |-> "", vals |-> <<0>>]
    ELSE [err |-> "", vals |-> lf[1].vals]

ValueFunction(lf) ==
    IF lf = <<>> THEN [err |-> "AssertionError", vals |-> <<>>]
    ELSE [err |-> "", vals |-> lf[1].vals]

\* forward() then forward_rnn(): the caches a forward pass leaves behind.
ModelForward_lstm_only(old_conv, obs, state, vals) ==
    [conv |-> old_conv, lstm |-> <<Lstm(ConvNet(obs), state, vals)>>]

ModelForward(old_conv, obs, state, vals) ==
    [conv |-> <<ConvNet(obs)>>, lstm |-> <<Lstm(ConvNet(obs), state, vals)>>]

\* -------------------------------------------------------------- optimizer
\* The effective batch size of the annealing schedule.
AnnealBatchSize_unguarded(cfg) ==
    cfg.num_workers * cfg.num_envs_per_worker * cfg.rollout_fragment_length

AnnealBatchSize(cfg) ==
    LET num_workers == IF cfg.num_workers = 0 THEN 1 ELSE cfg.num_workers
    IN num_workers * cfg.num_envs_per_worker * cfg.rollout_fragment_length

NoOptimizer ==
    [kind |-> "none", err |-> "", lr |-> RInt(0), base_lr |-> RInt(0),
     end_lr |-> RInt(0), anneal_steps |-> RInt(0), batch_size |-> 0,
     last_epoch |-> 0, factor_evals |-> 0]

\* optim.RMSprop(params, lr=config['lr'], eps=config['epsilon'])
torch_rmsprop_optimizer(cfg) ==
    [NoOptimizer EXCEPT !.kind = "RMSprop", !.lr = cfg.lr, !.base_lr = cfg.lr]

\* RMSpropLambdaLR(params, lr=config['lr'], eps=..., lr_lambda=...); the
\* float(...) / float(batch_size) before it raises on a zero batch size.
torch_rmsprop_lambdalr_optimizer(cfg) ==
    LET batch_size == AnnealBatchSize(cfg)
        anneal_steps == PyDiv(RInt(cfg.anneal_timesteps), RInt(batch_size))
    IN IF anneal_steps.err # ""
       THEN [NoOptimizer EXCEPT !.kind = "raised", !.err = anneal_steps.err,
                                !.batch_size = batch_size]
       ELSE [NoOptimizer EXCEPT !.kind = "RMSpropLambdaLR", !.lr = cfg.lr,
                                !.base_lr = cfg.lr, !.end_lr = cfg.end_lr,
                                !.anneal_steps = anneal_steps.val,
                                !.batch_size = batch_size]

torch_optimizer_always_scheduled(cfg) == torch_rmsprop_lambdalr_optimizer(cfg)

torch_optimizer(cfg) ==
    IF cfg.lr = cfg.end_lr
    THEN torch_rmsprop_optimizer(cfg)
    ELSE torch_rmsprop_lambdalr_optimizer(cfg)

\* lambda x: 1. - ((1. - (end_lr / lr)) * (x / anneal_steps))
lr_lambda_swapped(opt, x) ==
    LET ratio == PyDiv(opt.base_lr, opt.end_lr)
        frac == PyDiv(x, opt.anneal_steps)
    IN IF ratio.err # "" THEN Raise(ratio.err)
       ELSE IF frac.err # "" THEN Raise(frac.err)
       ELSE Ok(RSub(RInt(1), RMul(RSub(RInt(1), ratio.val), frac.val)))

lr_lambda(opt, x) ==
    LET ratio == PyDiv(opt.end_lr, opt.base_lr)
        frac == PyDiv(x, opt.anneal_steps)
    IN IF ratio.err # "" THEN Raise(ratio.err)
       ELSE IF frac.err # "" THEN Raise(frac.err)
       ELSE Ok(RSub(RInt(1), RMul(RSub(RInt(1), ratio.val), frac.val)))

\* A step of the optim.RMSprop built with a fixed rate: the rate is left alone.
RMSpropStep(opt) == [opt EXCEPT !.last_epoch = @ + 1]

\* A step of RMSpropLambdaLR: the rate becomes the base rate times the
\* schedule factor of the new step count.
RMSpropLambdaLRStep(opt) ==
    LET f == lr_lambda(opt, RInt(opt.last_epoch + 1))
    IN IF f.err # ""
       THEN [opt EXCEPT !.err = f.err, !.factor_evals = @ + 1]
       ELSE [opt EXCEPT !.last_epoch = @ + 1, !.factor_evals = @ + 1,
                        !.lr = RMul(opt.base_lr, f.val)]

OptimizerStep(opt) ==
    IF opt.kind = "RMSprop" THEN RMSpropStep(opt) ELSE RMSpropLambdaLRStep(opt)

\* ----------------------------------------------------------------- configs
Config(lr, end_lr, anneal, workers, envs, frag) ==
    [lr |-> lr, end_lr |-> end_lr, anneal_timesteps |-> anneal,
     num_workers |-> workers, num_envs_per_worker |-> envs,
     rollout_fragment_length |-> frag,
     vf_loss_coeff |-> R(1, 2), entropy_coeff |-> R(1, 100)]

\* lr=1e-3, end_lr=1e-4, anneal_timesteps=1000, no workers, one env, fragments of 10.
ScenarioConfig == Config(R(1, 1000), R(1, 10000), 1000, 0, 1, 10)

Rates == {RInt(0), R(1, 10000), R(1, 1000)}

Configs ==
    { Config(lr, end_lr, anneal, workers, envs, 10) :
        lr \in Rates, end_lr \in Rates, anneal \in {0, 1000},
        workers \in 0..MaxWorkers, envs \in 1..MaxEnvs }

\* ------------------------------------------------------------ trajectories
Last(s) == s[Len(s)]

\* policy.num_state_tensors(): the length of the model's initial state.
NumStateTensors(recurrent) == IF recurrent THEN 2 ELSE 0

Observations == {1, 2}
\* The recurrent states <<h, c>> a rollout records.
States == {<<1, 3>>, <<2, 4>>}
Predictions == {5, 7}

\* A timestep of a segment; only the last one may end the episode.
Timestep(o, d, st) ==
    [new_obs |-> o, actions |-> 0, rewards |-> 1, dones |-> d,
     state_out_0 |-> st[1], state_out_1 |-> st[2]]

Timesteps(last) ==
    IF last
    THEN { Timestep(o, d, st) : o \in Observations, d \in BOOLEAN, st \in States }
    ELSE { Timestep(1, FALSE, <<1, 3>>), Timestep(2, FALSE, <<2, 4>>) }

\* The sample batch of the timesteps ts, column by column.
SampleBatch(ts) ==
    [new_obs |-> [t \in 1..Len(ts) |-> ts[t].new_obs],
     actions |-> [t \in 1..Len(ts) |-> ts[t].actions],
     rewards |-> [t \in 1..Len(ts) |-> ts[t].rewards],
     dones |-> [t \in 1..Len(ts) |-> ts[t].dones],
     state_out |-> << [t \in 1..Len(ts) |-> ts[t].state_out_0],
                      [t \in 1..Len(ts) |-> ts[t].state_out_1] >>]

SampleBatches ==
    UNION { { SampleBatch(ts) :
                ts \in { f \in [1..n -> Timesteps(TRUE)] :
                           \A t \in 1..(n - 1) : f[t] \in Timesteps(FALSE) } }
            : n \in 1..MaxT }

\* ---------------------------------------------------------- add_advantages
\* next_state: state_out_i[-1] for i in range(policy.num_state_tensors()).
NextState_first(recurrent, sb) ==
    [i \in 1..NumStateTensors(recurrent) |-> sb.state_out[i][1]]

NextState(recurrent, sb) ==
    [i \in 1..NumStateTensors(recurrent) |-> Last(sb.state_out[i])]

\* The model evaluations add_advantages asks of policy._value, in order.
BootstrapEvals_always(recurrent, sb) ==
    << [obs |-> Last(sb.new_obs), prev_action |-> Last(sb.actions),
        prev_reward |-> Last(sb.rewards), state |-> NextState(recurrent, sb)] >>

BootstrapEvals(recurrent, sb) ==
    IF Last(sb.dones)
    THEN <<>>
    ELSE << [obs |-> Last(sb.new_obs), prev_action |-> Last(sb.actions),
             prev_reward |-> Last(sb.rewards), state |-> NextState(recurrent, sb)] >>

\* ------------------------------------------------------------------- stats
\* What actor_critic_loss leaves on the policy attribute holding old.
Retain_first(old, new) == IF old = <<>> THEN <<new>> ELSE old

Retain(old, new) == <<new>>

NoCall ==
    [op |-> "none", err |-> "", vals |-> <<>>, sample_batch |-> <<>>,
     evals |-> <<>>, last_r |-> <<>>, report |-> <<>>, ret |-> <<>>]

\* ----------------------------------------------------------------- actions
\* A forward pass of the model outside the policy's own calls (a rollout step).
forward(o, state, v) ==
    LET m == ModelForward(conv_features, <<o>>, state, <<v>>)
    IN /\ conv_features' = m.conv
       /\ lstm_features' = m.lstm
       /\ forwarded' = TRUE
       /\ call' = [NoCall EXCEPT !.op = "forward"]
       /\ UNCHANGED <<is_recurrent, entropy, pi_err, value_err, loss_batch,
                      config, optimizer>>

value_function ==
    LET r == ValueFunction(lstm_features)
    IN /\ call' = [NoCall EXCEPT !.op = "value_function", !.err = r.err,
                                 !.vals = r.vals]
       /\ UNCHANGED <<is_recurrent, conv_features, lstm_features, forwarded,
                      entropy, pi_err, value_err, loss_batch, config, optimizer>>

actor_critic_loss(b) ==
    LET m == ModelForward(conv_features, Column(b, "obs"), b.state_in,
                          Column(b, "v"))
        values == ValueFunction(m.lstm).vals
        loss == ActorCriticLoss(is_recurrent, config, b, values)
    IN /\ conv_features' = m.conv
       /\ lstm_features' = m.lstm
       /\ forwarded' = TRUE
       /\ entropy' = Retain(entropy, loss.entropy)
       /\ pi_err' = Retain(pi_err, loss.pi_err)
       /\ value_err' = Retain(value_err, loss.value_err)
       /\ loss_batch' = <<b>>
       /\ call' = [NoCall EXCEPT !.op = "actor_critic_loss",
                                 !.ret = <<loss.overall>>]
       /\ UNCHANGED <<is_recurrent, config, optimizer>>

\* v is what the model predicts on the bootstrap input, should it be asked.
add_advantages(sb, v) ==
    LET evals == BootstrapEvals(is_recurrent, sb)
        m == IF evals = <<>>
             THEN [conv |-> conv_features, lstm |-> lstm_features]
             ELSE ModelForward(conv_features, <<evals[1].obs>>, evals[1].state,
                               <<v>>)
        last_r == IF evals = <<>> THEN 0 ELSE ValueFunction(m.lstm).vals[1]
    IN /\ conv_features' = m.conv
       /\ lstm_features' = m.lstm
       /\ forwarded' = (forwarded \/ evals # <<>>)
       /\ call' = [NoCall EXCEPT !.op = "add_advantages",
                                 !.sample_batch = <<sb>>, !.evals = evals,
                                 !.last_r = <<last_r>>]
       /\ UNCHANGED <<is_recurrent, entropy, pi_err, value_err, loss_batch,
                      config, optimizer>>

stats ==
    /\ call' = IF entropy = <<>> \/ pi_err = <<>> \/ value_err = <<>>
               THEN [NoCall EXCEPT !.op = "stats", !.err = "AttributeError"]
               ELSE [NoCall EXCEPT !.op = "stats",
                        !.report = << [policy_entropy |-> entropy[1],
                                       policy_loss |-> pi_err[1],
                                       vf_loss |-> value_err[1],
                                       cur_lr |-> optimizer.lr] >>]
    /\ UNCHANGED <<is_recurrent, conv_features, lstm_features, forwarded,
                   entropy, pi_err, value_err, loss_batch, config, optimizer>>

build_optimizer ==
    /\ optimizer.kind = "none"
    /\ optimizer' = torch_optimizer(config)
    /\ UNCHANGED <<is_recurrent, conv_features, lstm_features, forwarded,
                   entropy, pi_err, value_err, loss_batch, call, config>>

optimizer_step ==
    /\ optimizer.kind \in {"RMSprop", "RMSpropLambdaLR"}
    /\ optimizer.err = ""
    /\ optimizer.last_epoch < MaxOptSteps
    /\ optimizer' = OptimizerStep(optimizer)
    /\ UNCHANGED <<is_recurrent, conv_features, lstm_features, forwarded,
                   entropy, pi_err, value_err, loss_batch, call, config>>

\* ---------------------------------------------------------- specifications
\* The policy after construction, with the recurrent model.
Init ==
    /\ is_recurrent = TRUE
    /\ conv_features = <<>>
    /\ lstm_features = <<>>
    /\ forwarded = FALSE
    /\ entropy = <<>>
    /\ pi_err = <<>>
    /\ value_err = <<>>
    /\ loss_batch = <<>>
    /\ call = NoCall
    /\ config = ScenarioConfig
    /\ optimizer = torch_optimizer(ScenarioConfig)

\* The train batches of one sequence, zero padded.
PolicyBatches == { b \in BatchesOf(1) : ZeroPadded(b) }

Next ==
    \/ \E o \in Observations, st \in States, v \in Predictions :
          forward(o, st, v)
    \/ value_function
    \/ \E b \in PolicyBatches : actor_critic_loss(b)
    \/ \E sb \in SampleBatches :
          \E v \in IF Last(sb.dones) THEN {5} ELSE Predictions :
             add_advantages(sb, v)
    \/ stats

Spec == Init /\ [][Next]_vars

\* One loss computation on every padded batch, for a recurrent and a
\* feed-forward policy.
InitLoss ==
    /\ is_recurrent \in BOOLEAN
    /\ conv_features = <<>>
    /\ lstm_features = <<>>
    /\ forwarded = FALSE
    /\ entropy = <<>>
    /\ pi_err = <<>>
    /\ value_err = <<>>
    /\ loss_batch = <<>>
    /\ call = NoCall
    /\ config = ScenarioConfig
    /\ optimizer = torch_optimizer(ScenarioConfig)

NextLoss ==
    \/ /\ loss_batch = <<>>
       /\ \E b \in Batches : actor_critic_loss(b)
    \/ stats

SpecLoss == InitLoss /\ [][NextLoss]_vars

\* The optimizer of every configuration, built and stepped.
InitOpt ==
    /\ is_recurrent = TRUE
    /\ conv_features = <<>>
    /\ lstm_features = <<>>
    /\ forwarded = FALSE
    /\ entropy = <<>>
    /\ pi_err = <<>>
    /\ value_err = <<>>
    /\ loss_batch = <<>>
    /\ call = NoCall
    /\ config \in Configs
    /\ optimizer = NoOptimizer

NextOpt ==
    \/ build_optimizer
    \/ optimizer_step

SpecOpt == InitOpt /\ [][NextOpt]_vars

\* ------------------------------------------------------------------ claims
\* The sample batch of the latest add_advantages call.
GivenBatch == call.sample_batch[1]

\* C1: value_function() on a model on which no forward pass has run fails with
\* an assertion fault and returns nothing; it returns a value only after a
\* forward pass.
C1_ValueFunctionNeedsForward ==
    call.op = "value_function" =>
        /\ ~forwarded => (call.err = "AssertionError" /\ call.vals = <<>>)
        /\ call.err = "" => (forwarded /\ call.vals # <<>>)

C1_Witness ==
    /\ call.op = "value_function"
    /\ ~forwarded
    /\ call.err = "AssertionError"

\* C2: when the segment's last timestep is done, add_advantages hands
\* compute_advantages a bootstrap value of exactly 0 and does not evaluate the
\* model.
C2_TerminalBootstrapIsZero ==
    (call.op = "add_advantages" /\ Last(GivenBatch.dones)) =>
        (call.last_r = <<0>> /\ call.evals = <<>>)

C2_Witness ==
    /\ call.op = "add_advantages"
    /\ Len(GivenBatch.dones) > 1
    /\ Last(GivenBatch.dones)
    /\ call.last_r = <<0>>

\* C3: when the segment's last timestep is not done, add_advantages evaluates
\* the model exactly once, on the last next-observation and on the last
\* recorded entry of every state_out_i in index order, and the bootstrap value
\* is the value estimate of that evaluation.
C3_TruncatedBootstrapUsesLastState ==
    (call.op = "add_advantages" /\ ~Last(GivenBatch.dones)) =>
        /\ Len(call.evals) = 1
        /\ call.evals[1].obs = GivenBatch.new_obs[Len(GivenBatch.new_obs)]
        /\ Len(call.evals[1].state) = 2
        /\ \A i \in 1..2 :
              call.evals[1].state[i]
                = GivenBatch.state_out[i][Len(GivenBatch.state_out[i])]
        /\ lstm_features # <<>>
        /\ lstm_features[1].obs = <<call.evals[1].obs>>
        /\ lstm_features[1].state = call.evals[1].state
        /\ call.last_r = <<lstm_features[1].vals[1]>>

C3_Witness ==
    /\ call.op = "add_advantages"
    /\ Len(GivenBatch.dones) > 1
    /\ ~Last(GivenBatch.dones)
    /\ GivenBatch.state_out[1][1] # Last(GivenBatch.state_out[1])
    /\ GivenBatch.new_obs[1] # Last(GivenBatch.new_obs)
    /\ Len(call.evals) = 1

\* C4 as stated: add_advantages leaves the model's cached conv_features and
\* lstm_features as they were.
C4_BootstrapLeavesCaches ==
    [][call'.op = "add_advantages" =>
          (conv_features' = conv_features /\ lstm_features' = lstm_features)]_vars

\* C4 amended: add_advantages leaves the policy's loss attributes, optimizer
\* and configuration alone; on a terminal segment it leaves the model's caches
\* alone, and on a truncated one it replaces them by the features of the
\* bootstrap input, so that value_function() then answers the bootstrap value.
C4_BootstrapReplacesCaches ==
    [][call'.op = "add_advantages" =>
          /\ UNCHANGED <<entropy, pi_err, value_err, loss_batch, config,
                         optimizer>>
          /\ Last(call'.sample_batch[1].dones) =>
                UNCHANGED <<conv_features, lstm_features>>
          /\ ~Last(call'.sample_batch[1].dones) =>
                /\ conv_features'
                     = << [obs |-> <<Last(call'.sample_batch[1].new_obs)>>] >>
                /\ lstm_features'[1].obs
                     = <<Last(call'.sample_batch[1].new_obs)>>
                /\ lstm_features'[1].state
                     = << Last(call'.sample_batch[1].state_out[1]),
                          Last(call'.sample_batch[1].state_out[2]) >>
                /\ call'.last_r = lstm_features'[1].vals]_vars

C4_Witness ==
    /\ call.op = "add_advantages"
    /\ ~Last(GivenBatch.dones)
    /\ loss_batch # <<>>
    /\ lstm_features[1].obs = <<Last(GivenBatch.new_obs)>>
    /\ lstm_features[1].vals = call.last_r

\* C5: stats reports the entropy, policy loss and value loss of the latest
\* actor_critic_loss call, whatever add_advantages calls came in between, and
\* answers with no values when no loss has been computed.
C5_StatsReportLatestLoss ==
    call.op = "stats" =>
        IF loss_batch = <<>>
        THEN call.err = "AttributeError" /\ call.report = <<>>
        ELSE LET loss == ActorCriticLoss(is_recurrent, config, loss_batch[1],
                                         Column(loss_batch[1], "v"))
             IN /\ call.err = ""
                /\ Len(call.report) = 1
                /\ call.report[1].policy_entropy = loss.entropy
                /\ call.report[1].policy_loss = loss.pi_err
                /\ call.report[1].vf_loss = loss.value_err

C5_Witness ==
    /\ call.op = "stats"
    /\ call.report # <<>>
    /\ loss_batch # <<>>
    /\ call.report[1].policy_loss # RInt(0)
    /\ lstm_features[1].obs # Column(loss_batch[1], "obs")

\* The latest train batch, and its positions that are real timesteps.
TrainBatch == loss_batch[1]

ValidPositions(recurrent, b) ==
    { k \in 1..Len(b.rows) :
        recurrent => InSeq(b.seq_lens, MaxSeq(b.seq_lens), k) }

\* b with zeros at every padded position.
ZeroPad(b) ==
    [b EXCEPT !.rows = [k \in 1..Len(b.rows) |->
                          IF k \in ValidPositions(TRUE, b) THEN b.rows[k]
                          ELSE ZeroRow]]

\* C9: with a recurrent policy the policy loss, value loss, entropy and
\* overall loss do not depend on what the padded positions hold: they are
\* those of the batch with the same seq_lens and the same elements within each
\* sequence and zeros elsewhere, so any two batches that agree within the
\* sequences get the same four numbers.
C9_PaddingHasNoEffect ==
    (call.op = "actor_critic_loss" /\ is_recurrent) =>
        LET z == ZeroPad(TrainBatch)
            loss == ActorCriticLoss(TRUE, config, z, Column(z, "v"))
        IN /\ entropy = <<loss.entropy>>
           /\ pi_err = <<loss.pi_err>>
           /\ value_err = <<loss.value_err>>
           /\ call.ret = <<loss.overall>>

C9_Witness ==
    /\ call.op = "actor_critic_loss"
    /\ is_recurrent
    /\ Len(TrainBatch.seq_lens) = 2
    /\ TrainBatch.seq_lens[1] # TrainBatch.seq_lens[2]
    /\ TrainBatch # ZeroPad(TrainBatch)

RECURSIVE SumOver(_, _)
SumOver(S, f) ==
    IF S = {} THEN 0
    ELSE LET k == CHOOSE x \in S : TRUE IN f[k] + SumOver(S \ {k}, f)

\* C10: each of entropy, policy loss and value loss is its sum over the valid
\* elements divided by the number of sequences (recurrent) or of rows (not
\* recurrent), not by the number of valid elements; on an all-valid batch that
\* is the sum over all elements divided by the batch size.
C10_DivisorIsBatchSize ==
    call.op = "actor_critic_loss" =>
        LET b == TrainBatch
            n == IF is_recurrent THEN Len(b.seq_lens) ELSE Len(b.rows)
            valid == ValidPositions(is_recurrent, b)
            sq == [k \in 1..Len(b.rows) |->
                     (b.rows[k].v - b.rows[k].vt) * (b.rows[k].v - b.rows[k].vt)]
            al == [k \in 1..Len(b.rows) |-> b.rows[k].adv * b.rows[k].logp]
        IN /\ RMul(entropy[1], RInt(n)) = RInt(-SumOver(valid, Column(b, "ent")))
           /\ RMul(pi_err[1], RInt(n)) = RInt(-SumOver(valid, al))
           /\ RMul(value_err[1], RInt(n)) = RInt(SumOver(valid, sq))

C10_Witness ==
    /\ call.op = "actor_critic_loss"
    /\ is_recurrent
    /\ Cardinality(ValidPositions(TRUE, TrainBatch)) > Len(TrainBatch.seq_lens)
    /\ Cardinality(ValidPositions(TRUE, TrainBatch)) < Len(TrainBatch.rows)

\* C6: the scheduled optimizer is built only when lr # end_lr; when
\* lr = end_lr the plain RMSprop is built, no schedule factor is ever computed
\* and the rate stays lr however many steps are taken.
C6_EqualRatesBypassSchedule ==
    optimizer.kind # "none" =>
        /\ optimizer.kind = "RMSpropLambdaLR" => config.lr # config.end_lr
        /\ config.lr = config.end_lr =>
              /\ optimizer.kind = "RMSprop"
              /\ optimizer.factor_evals = 0
              /\ optimizer.lr = config.lr

C6_Witness ==
    /\ config.lr = config.end_lr
    /\ config.lr # RInt(0)
    /\ optimizer.kind = "RMSprop"
    /\ optimizer.last_epoch >= 2

\* The schedule factor is 1 at 0 and end_lr / lr at anneal_steps; in the
\* scenario anneal_steps is 100 and the factor is 0.55 at 50.
FactorEndpoints ==
    LET f0 == lr_lambda(optimizer, RInt(0))
        f1 == lr_lambda(optimizer, optimizer.anneal_steps)
        f50 == lr_lambda(optimizer, RInt(50))
    IN /\ f0 = Ok(RInt(1))
       /\ f1.err = ""
       /\ RMul(f1.val, config.lr) = config.end_lr
       /\ config = ScenarioConfig =>
             (optimizer.anneal_steps = RInt(100) /\ f50 = Ok(R(55, 100)))

\* C7 as stated: for every configuration with lr # end_lr the factor is 1 at
\* x = 0 and end_lr / lr at x = anneal_steps.
C7_FactorEndpointsAlways ==
    optimizer.kind = "RMSpropLambdaLR" => FactorEndpoints

\* C7 amended: the same for every configuration with lr # end_lr, lr # 0 and
\* anneal_timesteps # 0, in exact arithmetic.
C7_FactorEndpointsNonzero ==
    (/\ optimizer.kind = "RMSpropLambdaLR"
     /\ config.lr # RInt(0)
     /\ config.anneal_timesteps # 0) => FactorEndpoints

C7_Witness ==
    /\ config = ScenarioConfig
    /\ optimizer.kind = "RMSpropLambdaLR"
    /\ optimizer.last_epoch >= 1
    /\ optimizer.lr = RMul(config.lr, lr_lambda(optimizer, RInt(optimizer.last_epoch)).val)

\* C8: the batch size behind anneal_steps is
\* max(num_workers, 1) * num_envs_per_worker * rollout_fragment_length; no
\* workers count as one, so the worker count never makes the divisor zero.
C8_WorkerCountNeverZeroes ==
    (optimizer.kind # "none" /\ config.lr # config.end_lr) =>
        /\ optimizer.batch_size
             = Max(config.num_workers, 1) * config.num_envs_per_worker
                 * config.rollout_fragment_length
        /\ config.num_workers = 0 =>
              optimizer.batch_size
                = config.num_envs_per_worker * config.rollout_fragment_length
        /\ optimizer.batch_size # 0
        /\ optimizer.kind = "RMSpropLambdaLR"

C8_Witness ==
    /\ config.num_workers = 0
    /\ config.anneal_timesteps # 0
    /\ optimizer.kind = "RMSpropLambdaLR"
    /\ optimizer.last_epoch >= 1

====
